---- MODULE Spec2Model ----
(***************************************************************************)
(* Model of the iotdev archiver.                                           *)
(*                                                                         *)
(*  - Ingestion Bridge (src/archiver/archiver.py): the MQTT callback       *)
(*    on_message pushes tagged samples on MQTTInterface.queue, the insert  *)
(*    loop of couchdb_client pops them and inserts them in the realtime    *)
(*    ("hot") database.                                                    *)
(*  - Consolidation Engine (src/archiver/dsarchiver.py): main walks the    *)
(*    topic list and calls archive_series until it returns False; each     *)
(*    call selects a window (get_first_doc, get_measures_slot), builds one *)
(*    record (process_series), inserts it in the datastore ("cold")        *)
(*    database and removes the window's documents from the hot database.   *)
(*                                                                         *)
(* Time is counted in seconds.  A timestamp STRING is modelled by an       *)
(* integer code that keeps the collation order of the strings (see Iso     *)
(* and ChopLast).  Every request to a database may fail.                   *)
(***************************************************************************)
EXTENDS Integers, Sequences, FiniteSets, TLC

\* ------------------------------------------------------------------ bounds
NumTopics == 2      \* topics are 1..NumTopics, in collation order
MaxOffset == 1      \* instants observed inside one window length: 0..MaxOffset
MaxWindows == 1     \* the clock is observed up to MaxWindows window lengths
MaxMsgs == 3        \* messages delivered by the broker
MaxVal == 2         \* measured values are 1..MaxVal
MaxRuns == 2        \* times the engine process is started
MaxRange == 3       \* band limits and readings of an accuracy table: 0..MaxRange
MaxAcc == 2         \* accuracies of a band are 1..MaxAcc
MaxBands == 2       \* bands of an accuracy table
MaxSeries == 3      \* samples of a series given to process_series on its own
MaxMissing == 1     \* keys left out of a section of the INI file
MaxField == 2       \* characters of the topic field of a catalog line
MaxLines == 3       \* lines of the catalog file

\* --------------------------------------------------------------- constants
TIMESPAN == 10          \* minutes, the timespan main passes to archive_series
SecondsPerMinute == 60  \* datetime.timedelta(minutes=timespan)

WindowLen == TIMESPAN * SecondsPerMinute

Topics == 1..NumTopics
Values == 1..MaxVal
\* the instants at which the clock is observed
Times == {w * WindowLen + o : w \in 0..MaxWindows, o \in 0..MaxOffset}

\* ------------------------------------------------------ timestamp strings
\* datetime.isoformat() of an instant with a whole number of seconds,
\* "YYYY-MM-DDTHH:MM:SS".  Strings of this shape collate in time order.
Iso(t) == 2 * t + 1

\* s[:-1] of such a string: the last digit of the seconds is cut.  The result
\* is a proper prefix of the ten strings of its tens-of-seconds group, so it
\* collates before all of them and after every earlier string.
ChopLast(t) == 20 * (t \div 10)

\* the strings datetime.fromisoformat accepts
WellFormed(s) == s % 2 = 1

\* datetime.fromisoformat of an accepted string
fromisoformat(s) == (s - 1) \div 2

\* ---------------------------------------------------------------- helpers
Last(s) == s[Len(s)]
Front(s) == SubSeq(s, 1, Len(s) - 1)
Range(s) == {s[i] : i \in 1..Len(s)}

\* collation of the view keys [topic, timestamp]
KeyLess(k1, k2) == \/ k1[1] < k2[1]
                   \/ k1[1] = k2[1] /\ k1[2] < k2[2]
KeyLeq(k1, k2) == k1 = k2 \/ KeyLess(k1, k2)

VARIABLES
  now,        \* the local clock, seconds
  queue,      \* MQTTInterface.queue
  hot,        \* documents of the realtime database
  cold,       \* documents of the datastore database
  epc,        \* position of the engine process
  topics,     \* main: the list returned by get_topic_list
  ti,         \* main: index of the current topic in topics
  win,        \* get_measures_slot: <<start_timestamp, end_timestamp>> queried
  rows,       \* archive_series: the rows returned by get_measures_slot
  calc_meas,  \* archive_series: the record built by process_series
  insertOk,   \* archive_series: the datastore insert did not raise
  di,         \* archive_series: index of the next row to delete
  exc,        \* the exception that ended the engine's main, "none" if none
  runs,       \* number of starts of the engine process
  idle,       \* the insert loop is in time.sleep(5)
  nEnq,       \* history: number of entries pushed by on_message
  qser,       \* history: for each entry of queue, its rank among the pushes
  deq,        \* history: ranks of the entries popped by the insert loop
  deleted,    \* history: hot documents removed by archive_series
  archived,   \* history: <<record id, document>> for every document of a
              \*          window whose record was inserted in the datastore
  mqttAlive,  \* the network thread of the MQTT client runs
  pin,        \* the arguments of a function examined on its own
  pout        \* ... and what it returned

vars == <<now, queue, hot, cold, epc, topics, ti, win, rows, calc_meas,
          insertOk, di, exc, runs, idle, nEnq, qser, deq, deleted, archived,
          mqttAlive, pin, pout>>

bridgeVars == <<queue, idle, nEnq, qser, deq>>
engineVars == <<epc, topics, ti, win, rows, calc_meas, insertOk, di, exc, runs>>
histVars == <<deleted, archived>>
pureVars == <<pin, pout>>

NoMeas == [id |-> <<0, 0>>]
NoWin == <<0, 0>>
NoIn == [fn |-> "none"]
NoOut == [fn |-> "none"]

\* the bridge and the engine before their first step
Quiet ==
  /\ now = 0
  /\ queue = <<>>
  /\ hot = {}
  /\ cold = {}
  /\ epc = "idle"
  /\ topics = <<>>
  /\ ti = 1
  /\ win = NoWin
  /\ rows = <<>>
  /\ calc_meas = NoMeas
  /\ insertOk = TRUE
  /\ di = 1
  /\ exc = "none"
  /\ runs = 0
  /\ idle = FALSE
  /\ nEnq = 0
  /\ qser = <<>>
  /\ deq = <<>>
  /\ deleted = {}
  /\ archived = {}
  /\ mqttAlive = TRUE

Init ==
  /\ Quiet
  /\ pin = NoIn
  /\ pout = NoOut

\* the clock advances
Tick ==
  /\ \E t \in Times : t > now /\ now' = t
  /\ UNCHANGED <<hot, cold, bridgeVars, engineVars, histVars, mqttAlive, pureVars>>

\* ======================================================= Ingestion Bridge

\* on_message, lines 246-249: the timestamp of the tagged sample.  hasTs:
\* the payload carries a timestamp field (pts); otherwise the clock is
\* formatted with isoformat() and cut at the last "." -- isoformat() prints
\* no "." when the microseconds are 0, rfind returns -1 and now[:-1] cuts the
\* last digit instead.
stamp(clock, hasTs, pts, micro) ==
  IF hasTs THEN pts
  ELSE IF micro # 0 THEN Iso(clock) ELSE ChopLast(clock)

\* the fields of a payload that the engine reads later: the device that
\* publishes on a topic and the type of its measures
MeasureType == "temperature"
PayloadDevice(topic) == topic

\* on_message, lines 252-254: the tagged sample and the queue entry
tdata(topic, ts, value) ==
  <<topic, [id |-> <<topic, ts>>, topic |-> topic, timestamp |-> ts,
            value |-> value, dev |-> PayloadDevice(topic),
            type |-> MeasureType]>>

\* an insert that writes over the entry at the head of the list, as a lost
\* update of two unsynchronised writers would
push_overwrite(q, e) == IF q = <<>> THEN <<e>> ELSE <<e>> \o Tail(q)

\* queue.append(tdata) in place of queue.insert(0, tdata)
push_append(q, e) == Append(q, e)

\* queue.insert(0, tdata)
push(q, e) == <<e>> \o q

\* queue.pop(): the entry returned and the list left
pop(q) == [entry |-> Last(q), rest |-> Front(q)]

\* the timestamps a payload may carry
PayloadStamps == {Iso(w * WindowLen) : w \in 0..MaxWindows}

\* the callback of the MQTT client thread.  json.loads raises on a payload
\* that is no JSON text; on_message catches nothing, the client is created
\* without suppress_exceptions, so the exception ends the network thread
\* started by loop_start and no later message reaches the callback.
on_message ==
  /\ mqttAlive
  /\ nEnq < MaxMsgs
  /\ \/ /\ \E topic \in Topics, value \in Values, hasTs \in BOOLEAN, micro \in {0, 1},
              pts \in PayloadStamps :
              /\ hasTs => micro = 1
              /\ ~hasTs => pts = Iso(0)
              /\ queue' = push(queue, tdata(topic, stamp(now, hasTs, pts, micro), value))
        /\ nEnq' = nEnq + 1
        /\ qser' = push(qser, nEnq + 1)
        /\ UNCHANGED mqttAlive
     \/ /\ mqttAlive' = FALSE                     \* json.loads raised
        /\ UNCHANGED <<queue, nEnq, qser>>
  /\ UNCHANGED <<now, hot, cold, engineVars, idle, deq, histVars, pureVars>>

\* a database that stores a second document under an _id it already holds
InsertAllowed_any(db, doc) == TRUE

\* couchdb.insert(doc): a document whose _id is already stored is refused
\* with a conflict, which time2relax raises
InsertAllowed(db, doc) == \A d \in db : d.id # doc.id

\* the insert loop putting the entry back on the queue when the insert raises
drain_retry ==
  /\ queue # <<>>
  /\ ~idle                                          \* not inside time.sleep
  /\ LET data == pop(queue).entry[2]
     IN /\ deq' = Append(deq, pop(qser).entry)
        /\ \/ /\ InsertAllowed(hot, data)
              /\ hot' = hot \cup {data}
              /\ queue' = pop(queue).rest
              /\ qser' = pop(qser).rest
           \/ /\ hot' = hot
              /\ queue' = push(pop(queue).rest, pop(queue).entry)
              /\ qser' = push(pop(qser).rest, pop(qser).entry)
  /\ idle' = FALSE
  /\ UNCHANGED <<now, cold, engineVars, nEnq, histVars, mqttAlive, pureVars>>

\* one turn of the insert loop of couchdb_client with an entry in the queue
drain ==
  /\ queue # <<>>
  /\ ~idle                                          \* not inside time.sleep
  /\ LET data == pop(queue).entry[2]
     IN /\ queue' = pop(queue).rest
        /\ qser' = pop(qser).rest
        /\ deq' = Append(deq, pop(qser).entry)
        /\ \/ /\ InsertAllowed(hot, data)
              /\ hot' = hot \cup {data}
           \/ hot' = hot                          \* insert raised: logged, dropped
  /\ idle' = FALSE
  /\ UNCHANGED <<now, cold, engineVars, nEnq, histVars, mqttAlive, pureVars>>

\* one turn of the insert loop with an empty queue: pop raises, sleep
drain_sleep ==
  /\ queue = <<>>
  /\ ~idle
  /\ idle' = TRUE
  /\ UNCHANGED <<now, queue, hot, cold, engineVars, nEnq, qser, deq, histVars,
                 mqttAlive, pureVars>>

\* a sleep that does not return
drain_oversleep ==
  /\ idle
  /\ UNCHANGED vars

\* time.sleep(5) returns
drain_wake ==
  /\ idle
  /\ idle' = FALSE
  /\ UNCHANGED <<now, queue, hot, cold, engineVars, nEnq, qser, deq, histVars,
                 mqttAlive, pureVars>>

\* ==================================================== Consolidation Engine

\* the view sequences/by_topic_no_reduce: one row per document, key
\* [topic, timestamp], sorted by key
Key(d) == <<d.topic, d.timestamp>>
Row(d) == [id |-> d.id, key |-> Key(d), value |-> d.value, doc |-> d]

RECURSIVE SortedRows(_)
SortedRows(docs) ==
  IF docs = {} THEN <<>>
  ELSE LET m == CHOOSE d \in docs : \A e \in docs : KeyLeq(Key(d), Key(e))
       IN <<Row(m)>> \o SortedRows(docs \ {m})

\* the key [topic]: an array collates before every longer array it prefixes
TopicKey(topic) == <<topic, -1>>

\* ddoc_view('sequences', 'by_topic_no_reduce') with startkey and limit 1
ViewFirst(db, startkey) ==
  LET all == SortedRows(db)
      sel == SelectSeq(all, LAMBDA r : KeyLeq(startkey, r.key))
  IN IF sel = <<>> THEN <<>> ELSE <<sel[1]>>

\* the same query with the end key excluded (inclusive_end=false)
ViewRange_exclusive(db, startkey, endkey) ==
  SelectSeq(SortedRows(db),
            LAMBDA r : KeyLeq(startkey, r.key) /\ KeyLess(r.key, endkey))

\* ddoc_view('sequences', 'by_topic_no_reduce') with startkey and endkey
ViewRange(db, startkey, endkey) ==
  SelectSeq(SortedRows(db),
            LAMBDA r : KeyLeq(startkey, r.key) /\ KeyLeq(r.key, endkey))

\* get_topic_list: the keys of counters/topic_list grouped, [] on failure
get_topic_list(db, ok) ==
  IF ~ok THEN <<>>
  ELSE LET present == {t \in Topics : \E d \in db : d.topic = t}
           sel == SelectSeq([i \in 1..NumTopics |-> i], LAMBDA t : t \in present)
       IN sel

\* get_first_doc: None when the query fails or returns no row, ValueError
\* when the key's timestamp is no ISO string
get_first_doc(db, topic, ok) ==
  IF ~ok THEN [kind |-> "none"]
  ELSE LET r == ViewFirst(db, TopicKey(topic))
       IN IF r = <<>> THEN [kind |-> "none"]
          ELSE IF ~WellFormed(r[1].key[2])
               THEN [kind |-> "raise", exc |-> "ValueError"]
               ELSE [kind |-> "time", t |-> fromisoformat(r[1].key[2])]

\* a readiness test that never defers a window
NotReady_never(end_timestamp, clock) == FALSE

\* the readiness test with > in place of >=
NotReady_strict(end_timestamp, clock) == end_timestamp > clock

\* the readiness test of get_measures_slot, line 183
NotReady(end_timestamp, clock) == end_timestamp >= clock

\* get_measures_slot
get_measures_slot(db, topic, timespan, clock, ok1, ok2) ==
  LET first == get_first_doc(db, topic, ok1)
  IN IF first.kind = "raise" THEN first
     ELSE IF first.kind = "none"
     THEN [kind |-> "raise", exc |-> "TypeError"]   \* None + timedelta
     ELSE LET start_timestamp == first.t
              end_timestamp == start_timestamp + timespan * SecondsPerMinute
          IN IF NotReady(end_timestamp, clock) THEN [kind |-> "none"]
             ELSE IF ~ok2 THEN [kind |-> "none"]      \* the query raised
             ELSE [kind |-> "rows",
                   win |-> <<start_timestamp, end_timestamp>>,
                   rows |-> ViewRange(db, <<topic, Iso(start_timestamp)>>,
                                          <<topic, Iso(end_timestamp)>>)]

\* process_series, lines 294-308: the running extremes; a later value equal
\* to the current extreme does not replace it
\* the running minimum with <= in place of <: a later equal value replaces it
RECURSIVE MinScan_lastwins(_, _, _)
MinScan_lastwins(data, i, cur) ==
  IF i > Len(data) THEN cur
  ELSE MinScan_lastwins(data, i + 1,
               IF data[i].value <= cur.value
               THEN [value |-> data[i].value, timestamp |-> data[i].doc.timestamp]
               ELSE cur)

RECURSIVE MinScan(_, _, _)
MinScan(data, i, cur) ==
  IF i > Len(data) THEN cur
  ELSE MinScan(data, i + 1,
               IF data[i].value < cur.value
               THEN [value |-> data[i].value, timestamp |-> data[i].doc.timestamp]
               ELSE cur)

RECURSIVE MaxScan(_, _, _)
MaxScan(data, i, cur) ==
  IF i > Len(data) THEN cur
  ELSE MaxScan(data, i + 1,
               IF data[i].value > cur.value
               THEN [value |-> data[i].value, timestamp |-> data[i].doc.timestamp]
               ELSE cur)

\* min(timestamps), max(timestamps): the strings are compared
MinStamp(data) ==
  CHOOSE s \in {r.doc.timestamp : r \in Range(data)} :
    \A r \in Range(data) : s <= r.doc.timestamp
MaxStamp(data) ==
  CHOOSE s \in {r.doc.timestamp : r \in Range(data)} :
    \A r \in Range(data) : s >= r.doc.timestamp

\* ------------------------------------------------------ device accuracy
\* a device record: None, or a document mapping measure types to accuracy
\* tables; a table is a list of bands {range_inf, range_sup, value}
None == [isNone |-> TRUE]
DeviceDoc(tables) == [isNone |-> FALSE, tables |-> tables]
NoTables == [t \in {} |-> <<>>]
Band(inf, sup, v) == [range_inf |-> inf, range_sup |-> sup, value |-> v]

\* the documents of the devices database: device 1 has a temperature table,
\* any other device is unknown
Devices == Topics
DeviceStore ==
  [d \in {1} |-> DeviceDoc([t \in {MeasureType} |->
                             <<Band(0, 2, 1), Band(2, 4, 2)>>])]

\* get_device: the record of the device, None when the request raises
get_device(db, device, ok) ==
  IF ok /\ device \in DOMAIN db THEN db[device] ELSE None

\* the band test with the upper limit included
BandHolds_closed(band, reading) ==
  (reading >= band.range_inf) /\ (reading <= band.range_sup)

\* accuracy, line 249: the band test
BandHolds(band, reading) ==
  (reading >= band.range_inf) /\ (reading < band.range_sup)

\* accuracy, lines 245-252: the value of the first band that holds the
\* reading, 0.0 when there is none
RECURSIVE ScanBands(_, _, _)
ScanBands(accuracies, reading, i) ==
  IF i > Len(accuracies) THEN 0
  ELSE IF BandHolds(accuracies[i], reading) THEN accuracies[i].value
  ELSE ScanBands(accuracies, reading, i + 1)

\* accuracy
accuracy(device, value_type, reading) ==
  IF device.isNone THEN 0
  ELSE IF value_type \notin DOMAIN device.tables THEN 0
  ELSE ScanBands(device.tables[value_type], reading, 1)

\* ------------------------------------------------------------- aggregation
\* statistics.stdev needs two data points
StdevDefined(n) == n >= 2

\* process_series, lines 282-283: the device records of the series, each
\* fetched once; up is the set of devices whose request succeeds
DeviceCache(db, data, up) ==
  [d \in {r.doc.dev : r \in Range(data)} |-> get_device(db, d, d \in up)]

\* process_series, lines 326-330: the values with their accuracy.  The
\* measure type is the type of the first document.
uvalues(devices, measure_type, data) ==
  [i \in 1..Len(data) |->
     [nominal |-> data[i].value,
      std |-> accuracy(devices[data[i].doc.dev], measure_type, data[i].value)]]

RECURSIVE SumNominal(_, _)
SumNominal(uv, i) ==
  IF i > Len(uv) THEN 0 ELSE uv[i].nominal + SumNominal(uv, i + 1)

RECURSIVE SumStd(_, _)
SumStd(uv, i) ==
  IF i > Len(uv) THEN 0 ELSE uv[i].std + SumStd(uv, i + 1)

RECURSIVE SumSqStd(_, _)
SumSqStd(uv, i) ==
  IF i > Len(uv) THEN 0 ELSE uv[i].std * uv[i].std + SumSqStd(uv, i + 1)

\* the mean with the standard deviations added up instead of their squares
uaverage_linear(uv) ==
  [nominal_value |-> [sum |-> SumNominal(uv, 1), n |-> Len(uv)],
   std_dev |-> [sumsq |-> SumStd(uv, 1) * SumStd(uv, 1), n |-> Len(uv)]]

\* process_series, line 332: sum(uvalues)/len(uvalues) of independent
\* uncertain values.  The nominal value is sum / n and the standard
\* deviation is sqrt(sumsq) / n; both are kept as exact pairs.
uaverage(uv) ==
  [nominal_value |-> [sum |-> SumNominal(uv, 1), n |-> Len(uv)],
   std_dev |-> [sumsq |-> SumSqStd(uv, 1), n |-> Len(uv)]]

\* the midpoint rounded up to the next second
Midpoint_up(a, b) == a + (b - a + 1) \div 2

\* process_series, lines 341-344: the midpoint of two instants;
\* isoformat(timespec='seconds') drops the half second
Midpoint(a, b) == a + (b - a) \div 2

\* process_series: the record to store, or the exception raised
process_series(db, up, topic, data) ==
  IF data = <<>> THEN [kind |-> "raise", exc |-> "ValueError"]    \* min([])
  ELSE IF ~StdevDefined(Len(data))
  THEN [kind |-> "raise", exc |-> "StatisticsError"]
  ELSE LET first_timestamp == MinStamp(data)
           last_timestamp == MaxStamp(data)
           first == [value |-> data[1].value, timestamp |-> data[1].doc.timestamp]
           measure_type == data[1].doc.type
           uavg == uaverage(uvalues(DeviceCache(db, data, up), measure_type, data))
       IN IF ~WellFormed(first_timestamp) \/ ~WellFormed(last_timestamp)
          THEN [kind |-> "raise", exc |-> "ValueError"]
          ELSE LET measure_timestamp ==
                     Iso(Midpoint(fromisoformat(first_timestamp),
                                  fromisoformat(last_timestamp)))
               IN [kind |-> "meas",
                   meas |-> [id |-> <<topic, measure_timestamp>>,
                             topic |-> topic,
                             measure_type |-> measure_type,
                             value_type |-> "average",
                             timestamp |-> measure_timestamp,
                             value |-> uavg.nominal_value,
                             accuracy |-> uavg.std_dev,
                             min_value |-> MinScan(data, 2, first),
                             max_value |-> MaxScan(data, 2, first),
                             time_slot |-> [start |-> first_timestamp,
                                            end |-> last_timestamp]]]

\* main, lines 426-430: where the engine stands once topic i is current
AtTopic(list, i) == IF i > Len(list) THEN "done" ELSE "loop"

\* main up to the topic loop: the engine process starts
main_start ==
  /\ epc \in {"idle", "done", "crashed"}
  /\ runs < MaxRuns
  /\ runs' = runs + 1
  /\ \E ok \in BOOLEAN :
       /\ topics' = get_topic_list(hot, ok)
       /\ epc' = AtTopic(get_topic_list(hot, ok), 1)
  /\ ti' = 1
  /\ exc' = "none"
  /\ win' = NoWin
  /\ rows' = <<>>
  /\ calc_meas' = NoMeas
  /\ insertOk' = TRUE
  /\ di' = 1
  /\ UNCHANGED <<now, hot, cold, bridgeVars, histVars, mqttAlive, pureVars>>

\* archive_series, lines 362-370: select the window and build the record
archive_select ==
  /\ epc = "loop"
  /\ \E ok1, ok2 \in BOOLEAN :
       LET slot == get_measures_slot(hot, topics[ti], TIMESPAN, now, ok1, ok2)
       IN \/ /\ slot.kind = "raise"
             /\ epc' = "crashed" /\ exc' = slot.exc
             /\ UNCHANGED <<ti, win, rows, calc_meas>>
          \/ /\ slot.kind = "none"                   \* return False
             /\ epc' = AtTopic(topics, ti + 1) /\ ti' = ti + 1
             /\ UNCHANGED <<exc, win, rows, calc_meas>>
          \/ /\ slot.kind = "rows"
             /\ win' = slot.win
             /\ rows' = slot.rows
             /\ \E up \in SUBSET Devices :
                  LET res == process_series(DeviceStore, up, topics[ti], slot.rows)
                  IN \/ /\ res.kind = "raise"
                        /\ epc' = "crashed" /\ exc' = res.exc
                        /\ UNCHANGED <<ti, calc_meas>>
                     \/ /\ res.kind = "meas"
                        /\ epc' = "insert" /\ calc_meas' = res.meas
                        /\ UNCHANGED <<ti, exc>>
  /\ UNCHANGED <<now, hot, cold, bridgeVars, topics, insertOk, di, runs, histVars,
                 mqttAlive, pureVars>>

\* archive_series, lines 372-378: insert the record in the datastore; a
\* failure is logged and the function goes on
archive_insert ==
  /\ epc = "insert"
  /\ \/ /\ InsertAllowed(cold, calc_meas)
        /\ cold' = cold \cup {calc_meas}
        /\ insertOk' = TRUE
        /\ archived' = archived \cup {<<calc_meas.id, r.doc>> : r \in Range(rows)}
     \/ /\ insertOk' = FALSE
        /\ UNCHANGED <<cold, archived>>
  /\ epc' = "delete"
  /\ di' = 1
  /\ UNCHANGED <<now, hot, bridgeVars, topics, ti, win, rows, calc_meas, exc,
                 runs, deleted, mqttAlive, pureVars>>

\* a lookup that yields every document of the topic of the id
get_topic(db, id) == {d \in db : d.topic = id[1]}

\* db_realtime.get(result['id']): the document stored under the id
get(db, id) == {d \in db : d.id = id}

\* a remove that leaves the document in the database
remove_kept(db, found) == db

\* db_realtime.remove(result['_id'], result['_rev'])
remove(db, found) == db \ found

\* archive_series, lines 381-385: one turn of the delete loop.  get or
\* remove may raise; nothing catches it before main's logger.catch.
archive_delete ==
  /\ epc = "delete"
  /\ LET id == rows[di].id
         found == get(hot, id)
     IN \/ /\ found # {}
           /\ hot' = remove(hot, found)
           /\ deleted' = deleted \cup found
           /\ IF di < Len(rows)
              THEN /\ di' = di + 1
                   /\ UNCHANGED <<epc, win, rows, calc_meas, insertOk>>
              ELSE /\ epc' = "loop"                  \* return True
                   /\ di' = 1
                   /\ win' = NoWin
                   /\ rows' = <<>>
                   /\ calc_meas' = NoMeas
                   /\ insertOk' = TRUE
           /\ exc' = exc
        \/ /\ epc' = "crashed" /\ exc' = "StoreError"
           /\ UNCHANGED <<hot, deleted, di, win, rows, calc_meas, insertOk>>
  /\ UNCHANGED <<now, cold, bridgeVars, topics, ti, runs, archived, mqttAlive,
                 pureVars>>

Next ==
  \/ Tick
  \/ on_message
  \/ drain
  \/ drain_sleep
  \/ drain_wake
  \/ main_start
  \/ archive_select
  \/ archive_insert
  \/ archive_delete

Spec == Init /\ [][Next]_vars

\* archiver.py running while dsarchiver.py, a program of its own, is not
\* started: the steps of the clock, of the MQTT thread and of the insert loop
NextBridge ==
  \/ Tick
  \/ on_message
  \/ drain
  \/ drain_sleep
  \/ drain_wake

\* the thread of the insert loop is scheduled again and again, and
\* time.sleep(5) returns
SpecLive == Init /\ [][NextBridge]_vars /\ WF_vars(drain) /\ WF_vars(drain_wake)

\* ============================================= accuracy examined on its own

\* the accuracy tables, device records and calls of accuracy considered
AccBands == {Band(inf, sup, v) : inf \in 0..MaxRange, sup \in 0..MaxRange,
                                 v \in 1..MaxAcc}
AccTables == UNION {[1..n -> AccBands] : n \in 0..MaxBands}
AccDevices ==
  {None, DeviceDoc(NoTables)}
    \cup {DeviceDoc([t \in {MeasureType} |-> tbl]) : tbl \in AccTables}
AccInputs ==
  [fn : {"accuracy"}, device : AccDevices,
   value_type : {MeasureType, "humidity"}, reading : 0..MaxRange]

InitAcc ==
  /\ Quiet
  /\ pin \in AccInputs
  /\ pout = NoOut

\* accuracy(device, value_type, reading) is called
accuracy_call ==
  /\ pin.fn = "accuracy"
  /\ pout = NoOut
  /\ pout' = [fn |-> "accuracy",
              value |-> accuracy(pin.device, pin.value_type, pin.reading)]
  /\ UNCHANGED <<now, hot, cold, bridgeVars, engineVars, histVars, mqttAlive, pin>>

NextAcc == accuracy_call

SpecAcc == InitAcc /\ [][NextAcc]_vars

\* ====================================== process_series examined on its own

\* the series of one topic process_series is called with: at most one sample
\* per instant, each of some value and some device, in key order
AggDoc(t, v, d) ==
  [id |-> <<1, Iso(t)>>, topic |-> 1, timestamp |-> Iso(t), value |-> v,
   dev |-> d, type |-> MeasureType]
AggSeries ==
  UNION {{SortedRows({AggDoc(t, f[t][1], f[t][2]) : t \in T}) :
            f \in [T -> Values \X Devices]} :
         T \in SUBSET (0..(MaxSeries - 1))}
AggInputs ==
  [fn : {"process_series"}, up : SUBSET Devices, data : AggSeries]

InitAgg ==
  /\ Quiet
  /\ pin \in AggInputs
  /\ pout = NoOut

\* process_series(dbs, topic, data) is called
process_series_call ==
  /\ pin.fn = "process_series"
  /\ pout = NoOut
  /\ pout' = [fn |-> "process_series",
              ret |-> process_series(DeviceStore, pin.up, 1, pin.data)]
  /\ UNCHANGED <<now, hot, cold, bridgeVars, engineVars, histVars, mqttAlive, pin>>

NextAgg == process_series_call

SpecAgg == InitAgg /\ [][NextAgg]_vars

\* ================================================= startup examined on its own

\* the sections of the INI file and the keys the two programs verify or read
Sections == {"config", "iot", "mqtt", "couchdb"}
ConfigKeys == {"logdir", "log_rotation", "log_rotation_size", "log_retention",
               "trace_level"}
ConsoleKey == {"console_log"}
IotKeys == {"file", "filedir"}
MqttKeys == {"server", "port", "user", "password", "keepalive"}
ServerKeys == {"server", "port", "user", "password"}
VerifiedDbKeys == {"readfom_dbname", "writeto_dbname", "devices_dbname"}
ReadDbKeys == {"realtime_dbname", "datastore_dbname", "devices_dbname"}
AllKeys(section) ==
  CASE section = "config" -> ConfigKeys \cup ConsoleKey
    [] section = "iot" -> IotKeys
    [] section = "mqtt" -> MqttKeys
    [] section = "couchdb" -> ServerKeys \cup {"dbname"} \cup VerifiedDbKeys
                                \cup ReadDbKeys

\* a section as written in the file: absent, or with up to MaxMissing of its
\* keys left out
NoSection == [present |-> FALSE, keys |-> {}]
SectionTexts(section) ==
  {NoSection} \cup
  {[present |-> TRUE, keys |-> AllKeys(section) \ K] :
     K \in {M \in SUBSET AllKeys(section) : Cardinality(M) <= MaxMissing}}
IniFiles ==
  {[s \in Sections |-> CASE s = "config" -> c [] s = "iot" -> i
                         [] s = "mqtt" -> m [] s = "couchdb" -> d] :
     c \in SectionTexts("config"), i \in SectionTexts("iot"),
     m \in SectionTexts("mqtt"), d \in SectionTexts("couchdb")}

\* a start of one of the two programs: whether the INI file is found, its
\* text, whether the log directory exists and whether the catalog yields topics
StartInputs ==
  [fn : {"main"}, prog : {"archiver", "historicizer"}, found : BOOLEAN,
   ini : IniFiles, logdir : BOOLEAN, catalog : BOOLEAN]

\* load_config: None when no directory holds the file
load_config(found, ini) == IF found THEN [isNone |-> FALSE, ini |-> ini]
                           ELSE [isNone |-> TRUE, ini |-> ini]

\* verify_params
verify_params(ini, section, req_params) ==
  IF ~ini[section].present THEN FALSE
  ELSE \A param \in req_params : param \in ini[section].keys

\* config_logging of archiver.py and of configuration.py
config_logging(ini, req_params, logdir) ==
  IF ~verify_params(ini, "config", req_params) THEN FALSE
  ELSE logdir

\* load_iot_config: TRUE when a non-empty dictionary of topics is returned
load_iot_config(ini, catalog) ==
  IF ~verify_params(ini, "iot", IotKeys) THEN FALSE
  ELSE catalog

\* archiver.py, mqtt_client: the value returned and whether the session with
\* the broker was started.  port and keepalive are taken to be numbers and
\* the broker to be reachable.
mqtt_client(ini) ==
  IF ~verify_params(ini, "mqtt", MqttKeys)
  THEN [ret |-> "False", session |-> FALSE]
  ELSE [ret |-> "None", session |-> TRUE]

\* archiver.py, couchdb_client: whether the insert loop was entered
archiver_couchdb_client(ini) ==
  verify_params(ini, "couchdb", ServerKeys \cup {"dbname"})

\* archiver.py, main: what was started when main is over or loops for ever
archiver_main(in) ==
  LET cfg == load_config(in.found, in.ini)
      nothing == [logging |-> FALSE, session |-> FALSE, drain |-> FALSE,
                  store |-> FALSE, exc |-> "none"]
  IN IF cfg.isNone THEN nothing
     ELSE LET logging == config_logging(cfg.ini, ConfigKeys, in.logdir)
          IN IF ~load_iot_config(cfg.ini, in.catalog)
             THEN [nothing EXCEPT !.logging = logging]
             ELSE LET m == mqtt_client(cfg.ini)
                      c == archiver_couchdb_client(cfg.ini)
                  IN [logging |-> logging, session |-> m.session,
                      drain |-> c, store |-> c, exc |-> "none"]

\* dsarchiver.py, connect_db: the database object, None, or the KeyError of
\* couchdb_params[db_name]
connect_db(ini, db_name) ==
  IF ~verify_params(ini, "couchdb", ServerKeys \cup VerifiedDbKeys) THEN "None"
  ELSE IF db_name \notin ini["couchdb"].keys THEN "KeyError"
  ELSE "db"

\* dsarchiver.py, couchdb_client: the three connections in turn
dsarchiver_couchdb_client(ini) ==
  LET r == connect_db(ini, "realtime_dbname")
      w == connect_db(ini, "datastore_dbname")
      d == connect_db(ini, "devices_dbname")
  IN IF r = "KeyError" \/ w = "KeyError" \/ d = "KeyError" THEN "KeyError"
     ELSE IF r = "None" \/ w = "None" \/ d = "None" THEN "None"
     ELSE "dbs"

\* dsarchiver.py, main up to get_topic_list, the first request to a database
dsarchiver_main(in) ==
  LET cfg == load_config(in.found, in.ini)
      nothing == [logging |-> FALSE, session |-> FALSE, drain |-> FALSE,
                  store |-> FALSE, exc |-> "none"]
  IN IF cfg.isNone THEN nothing
     ELSE LET logging == config_logging(cfg.ini, ConfigKeys \cup ConsoleKey,
                                        in.logdir)
          IN IF ~load_iot_config(cfg.ini, in.catalog)
             THEN [nothing EXCEPT !.logging = logging]
             ELSE LET dbs == dsarchiver_couchdb_client(cfg.ini)
                  IN [nothing EXCEPT !.logging = logging,
                                     !.store = (dbs = "dbs"),
                                     !.exc = IF dbs = "KeyError" THEN "KeyError"
                                             ELSE "none"]

InitStart ==
  /\ Quiet
  /\ pin \in StartInputs
  /\ pout = NoOut

\* archiver.py is started
archiver_start ==
  /\ pin.fn = "main"
  /\ pin.prog = "archiver"
  /\ pout = NoOut
  /\ pout' = [fn |-> "main", started |-> archiver_main(pin)]
  /\ UNCHANGED <<now, hot, cold, bridgeVars, engineVars, histVars, mqttAlive, pin>>

\* dsarchiver.py is started
dsarchiver_start ==
  /\ pin.fn = "main"
  /\ pin.prog = "historicizer"
  /\ pout = NoOut
  /\ pout' = [fn |-> "main", started |-> dsarchiver_main(pin)]
  /\ UNCHANGED <<now, hot, cold, bridgeVars, engineVars, histVars, mqttAlive, pin>>

NextStart ==
  \/ archiver_start
  \/ dsarchiver_start

SpecStart == InitStart /\ [][NextStart]_vars

\* ============================================= the catalog examined on its own

\* the text of the 'topic' field of a line of the catalog file: a sequence of
\* characters; the header word, bare or after a blank, is among the texts
Chars == {" ", "#", "a", "b"}
Header == <<"t", "o", "p", "i", "c">>
FieldTexts ==
  UNION {[1..n -> Chars] : n \in 0..MaxField} \cup {Header, <<" ">> \o Header}

\* a line of the file as csv.DictReader yields it: the 'topic' field and the
\* remaining fields
CatalogLines == [topic : FieldTexts, rest : 1..MaxVal]
CatalogFiles == UNION {[1..n -> CatalogLines] : n \in 0..MaxLines}
CatalogInputs == [fn : {"load_iot_config"}, file : CatalogFiles]

\* str.strip(" ")
RECURSIVE lstrip(_)
lstrip(f) ==
  IF f = <<>> THEN f
  ELSE IF Head(f) = " " THEN lstrip(Tail(f)) ELSE f
RECURSIVE rstrip(_)
rstrip(f) ==
  IF f = <<>> THEN f
  ELSE IF f[Len(f)] = " " THEN rstrip(SubSeq(f, 1, Len(f) - 1)) ELSE f
strip(f) == rstrip(lstrip(f))

\* load_iot_config, lines 197-202: a topic already in the dictionary is
\* skipped, a new one is assigned the rest of its row
AddTopic(catalog, topic, row) ==
  IF topic \in DOMAIN catalog THEN catalog
  ELSE [t \in DOMAIN catalog \cup {topic} |-> IF t = topic THEN row ELSE catalog[t]]

\* the empty dictionary
NoTopics == [t \in {} |-> 0]

\* load_iot_config, the loop over the rows: the dictionary, or the exception
\* raised by topic[0] of an empty string
RECURSIVE ReadRows(_, _, _)
ReadRows(file, i, catalog) ==
  IF i > Len(file) THEN [kind |-> "topics", catalog |-> catalog]
  ELSE LET topic == strip(file[i].topic)
       IN IF topic = Header THEN ReadRows(file, i + 1, catalog)
          ELSE IF topic = <<>> THEN [kind |-> "raise", exc |-> "IndexError"]
          ELSE IF topic[1] = "#" THEN ReadRows(file, i + 1, catalog)
          ELSE ReadRows(file, i + 1, AddTopic(catalog, topic, file[i].rest))

\* load_iot_config once the file is found: an exception of the loop is
\* logged and {} is returned
load_catalog(file) ==
  LET r == ReadRows(file, 1, NoTopics)
  IN IF r.kind = "raise" THEN NoTopics ELSE r.catalog

InitCat ==
  /\ Quiet
  /\ pin \in CatalogInputs
  /\ pout = NoOut

\* load_iot_config reads the catalog file
load_catalog_call ==
  /\ pin.fn = "load_iot_config"
  /\ pout = NoOut
  /\ pout' = [fn |-> "load_iot_config", topics |-> load_catalog(pin.file)]
  /\ UNCHANGED <<now, hot, cold, bridgeVars, engineVars, histVars, mqttAlive, pin>>

NextCat == load_catalog_call

SpecCat == InitCat /\ [][NextCat]_vars

\* ================================================================ properties

\* the hot documents of a topic, and the earliest timestamp among them
TopicDocs(t) == {d \in hot : d.topic = t}
Earliest(t) ==
  CHOOSE s \in {d.timestamp : d \in TopicDocs(t)} :
    \A d \in TopicDocs(t) : s <= d.timestamp

\* the step taken is archive_series selecting a window for topics[ti]
SelectStep == epc = "loop" /\ (epc' # "loop" \/ ti' # ti)
\* ... and archive_series returned False
ReturnedFalse == ti' = ti + 1 /\ epc' \in {"loop", "done"} /\ rows' = <<>>

\* C1: when the insert of the record in the datastore fails, the migration is
\* aborted: archive_series does not enter its delete loop but hands the same
\* topic back to main, and no document is removed from the hot database.
C1_InsertFailureAborts ==
  [][/\ (epc = "insert" /\ epc' # "insert" /\ ~insertOk')
          => (epc' = "loop" /\ ti' = ti)
     /\ (epc = "delete" /\ ~insertOk) => hot \subseteq hot']_vars

\* C2: every document removed from the hot database by a migration belongs to
\* the window of a record that is stored in the datastore.
C2_NoDataLoss ==
  \A d \in deleted : \E r \in cold : <<r.id, d>> \in archived

\* C3: a get or remove that fails in the delete loop does not end the loop:
\* from the delete phase the engine only goes on to the next id or, after the
\* last one, back to main's loop for the next window.
C3_DeleteFailureContinues ==
  [][epc = "delete" => epc' \in {"delete", "loop"}]_vars

\* C4: inserting a record whose identifier the datastore already holds leaves
\* exactly one document with that identifier and counts as a successful
\* insert, not as an insert error.
C4_DuplicateInsertIsSuccess ==
  [][(epc = "insert" /\ epc' = "delete" /\ \E r \in cold : r.id = calc_meas.id)
       => /\ Cardinality({r \in cold' : r.id = calc_meas.id}) = 1
          /\ insertOk']_vars

\* C5: the entries leave the queue in the order in which on_message pushed
\* them, whatever the interleaving of pushes and pops.
C5_Fifo ==
  /\ deq = [i \in 1..Len(deq) |-> i]
  /\ Len(qser) = Len(queue)

C5_Witness ==
  /\ Len(deq) >= 2
  /\ queue # <<>>
  /\ hot # {}

\* C6: for a topic whose earliest hot document has timestamp s,
\* get_measures_slot returns None (archive_series returns False, nothing is
\* stored or removed) whenever s + D >= now; otherwise it queries the closed
\* interval [s, s + D].  (A view request that fails gives None as well; when
\* it is the request of get_first_doc, main ends with the TypeError.)
C6_WindowReadiness ==
  [][(SelectStep /\ TopicDocs(topics[ti]) # {}
        /\ WellFormed(Earliest(topics[ti])))
       => LET s == fromisoformat(Earliest(topics[ti]))
          IN \/ epc' = "crashed" /\ exc' = "TypeError"
             \/ /\ s + WindowLen >= now
                /\ ReturnedFalse /\ win' = NoWin /\ hot' = hot /\ cold' = cold
             \/ /\ s + WindowLen < now
                /\ \/ ReturnedFalse /\ win' = NoWin
                   \/ /\ win' = <<s, s + WindowLen>>
                      /\ win'[2] - win'[1] = TIMESPAN * SecondsPerMinute
                      /\ rows' # <<>>]_vars

\* a window was queried for a topic whose earliest document is exactly one
\* window length old, and another call found its window not ready
C6_Witness ==
  /\ epc = "insert"
  /\ win[2] < now
  /\ \E d \in hot : d.topic = topics[ti] /\ d.timestamp = Iso(win[2])

\* C7: the window start is the timestamp of a hot document of the topic that
\* is being archived.
C7_FirstDocOfSameTopic ==
  [][(SelectStep /\ win' # NoWin)
       => \E d \in hot : d.topic = topics[ti] /\ d.timestamp = Iso(win'[1])]_vars

\* C8: the rows handed to process_series are exactly the hot documents of the
\* topic whose timestamp lies in [start, end] (ends included, compared as the
\* view compares its keys), each of them once.
C8_WindowRows ==
  [][(SelectStep /\ win' # NoWin)
       => LET inwin == {d \in hot : /\ d.topic = topics[ti]
                                    /\ Iso(win'[1]) <= d.timestamp
                                    /\ d.timestamp <= Iso(win'[2])}
          IN /\ {r.doc : r \in Range(rows')} = inwin
             /\ Len(rows') = Cardinality(inwin)]_vars

\* a window whose last document lies on the end of the interval, while the
\* hot database holds a document outside the window
C8_Witness ==
  /\ epc = "insert"
  /\ \E r \in Range(rows) : r.doc.timestamp = Iso(win[2])
  /\ \E d \in hot : d \notin {r.doc : r \in Range(rows)}

\* C9: for a topic without hot documents archive_series returns False without
\* raising, and stores and removes nothing.
C9_EmptyTopicDeferred ==
  [][(SelectStep /\ TopicDocs(topics[ti]) = {})
       => (ReturnedFalse /\ exc' = "none" /\ cold' = cold /\ hot \subseteq hot')]_vars

\* C10: a ready window of exactly one document does not end the engine.
C10_SingleSampleWindow ==
  [][(SelectStep /\ win' # NoWin /\ Len(rows') = 1) => epc' # "crashed"]_vars

\* the engine holds the rows of a window and the record built from them
HasRecord == epc \in {"insert", "delete"}

\* row i is the first row of the window whose value is v, and t its timestamp
FirstWith(v, t) ==
  \E i \in 1..Len(rows) :
    /\ rows[i].value = v
    /\ rows[i].doc.timestamp = t
    /\ \A j \in 1..(i - 1) : rows[j].value # v

\* C11: for a window of two or more rows the record's min_value and max_value
\* bound every value of the window, are values of the window, and carry the
\* timestamp of the first row, in input order, that has the extreme value.
C11_MinMax ==
  HasRecord =>
    /\ Len(rows) >= 2
    /\ \A i \in 1..Len(rows) :
         /\ calc_meas.min_value.value <= rows[i].value
         /\ rows[i].value <= calc_meas.max_value.value
    /\ FirstWith(calc_meas.min_value.value, calc_meas.min_value.timestamp)
    /\ FirstWith(calc_meas.max_value.value, calc_meas.max_value.timestamp)

\* a window in which two rows tie on the minimum and a third value is larger
C11_Witness ==
  /\ HasRecord
  /\ Len(rows) = 3
  /\ rows[1].value = rows[2].value
  /\ rows[3].value > rows[1].value
  /\ calc_meas.min_value.timestamp = rows[1].doc.timestamp

\* the accuracy table named by the call, <<>> when the device has none
CalledTable ==
  IF pin.device.isNone THEN <<>>
  ELSE IF pin.value_type \notin DOMAIN pin.device.tables THEN <<>>
  ELSE pin.device.tables[pin.value_type]

\* the bands of that table with range_inf <= reading < range_sup
Holding ==
  {i \in 1..Len(CalledTable) :
     /\ CalledTable[i].range_inf <= pin.reading
     /\ pin.reading < CalledTable[i].range_sup}

\* C12: accuracy returns the value of the first band with
\* range_inf <= reading < range_sup, and 0.0 when the device is None, has no
\* table for the measure type or no band holds the reading.
C12_Accuracy ==
  pout # NoOut =>
    IF Holding = {} THEN pout.value = 0
    ELSE \E i \in Holding :
           /\ \A j \in Holding : i <= j
           /\ pout.value = CalledTable[i].value

\* the reading equals range_sup of the first band, which does not hold it,
\* and the second band gives the result
C12_Witness ==
  /\ pout # NoOut
  /\ Len(CalledTable) = 2
  /\ CalledTable[1].range_inf < pin.reading
  /\ CalledTable[1].range_sup = pin.reading
  /\ Holding = {2}
  /\ CalledTable[1].value # CalledTable[2].value
  /\ pout.value = CalledTable[2].value

\* the docs of the rows held by the engine, and the instants of the earliest
\* and of the latest of them
RowDocs == {r.doc : r \in Range(rows)}
EarliestStamp ==
  CHOOSE t \in {d.timestamp : d \in RowDocs} :
    \A d \in RowDocs : t <= d.timestamp
LatestStamp ==
  CHOOSE t \in {d.timestamp : d \in RowDocs} :
    \A d \in RowDocs : t >= d.timestamp
MidInstant == (fromisoformat(EarliestStamp) + fromisoformat(LatestStamp)) \div 2

\* the step is a turn of the delete loop that removed its document
DeleteStep == epc = "delete" /\ (di' = di + 1 \/ epc' = "loop")

\* C13: in a cycle without a failing store operation the datastore gains
\* exactly one document, the record whose identifier is topic@midpoint, and
\* nothing else of it changes; every turn of the delete loop removes the
\* document of its row from the hot database, and when the cycle ends every
\* document of the window has been removed.
C13_CleanCycle ==
  [][/\ cold' # cold => epc = "insert"
     /\ (epc = "insert" /\ epc' = "delete" /\ insertOk')
          => /\ calc_meas \notin cold
             /\ cold' = cold \cup {calc_meas}
             /\ Cardinality(cold') = Cardinality(cold) + 1
             /\ calc_meas.id = <<topics[ti], Iso(MidInstant)>>
     /\ DeleteStep
          => /\ rows[di].doc \in hot
             /\ hot' = hot \ {rows[di].doc}
     /\ (DeleteStep /\ epc' = "loop")
          => /\ di = Len(rows)
             /\ RowDocs \subseteq deleted']_vars

\* a cycle that stored its record and removed its two or more documents
C13_Witness ==
  /\ epc = "loop"
  /\ exc = "none"
  /\ Cardinality(cold) = 1
  /\ Cardinality(deleted) >= 2
  /\ deleted \cap hot = {}
  /\ \A d \in deleted : \E r \in cold : <<r.id, d>> \in archived

\* the step is a turn of the insert loop that popped an entry
DrainStep == Len(deq') > Len(deq)

\* C14: a popped entry leaves the queue for good and is handed to the hot
\* insert once: the hot database gains that document or, when the insert
\* fails, nothing; the entry is not put back and the loop does not sleep.
C14_AtMostOnce ==
  [][DrainStep
       => /\ queue' = Front(queue)
          /\ Len(deq') = Len(deq) + 1
          /\ hot' = hot \/ hot' = hot \cup {Last(queue)[2]}
          /\ ~idle']_vars

\* an insert failed, its entry is gone and a further entry waits
C14_Witness ==
  /\ Len(deq) = 2
  /\ hot = {}
  /\ deleted = {}
  /\ Len(queue) = 1

\* the step is on_message pushing an entry
PushStep == nEnq' = nEnq + 1

\* C15: on_message adds exactly one entry (topic, sample); the sample's
\* timestamp is the one of the payload or else the current time in whole
\* seconds, its topic is the message topic and its identifier is
\* topic@timestamp.
C15_Tagging ==
  [][PushStep
       => /\ Len(queue') = Len(queue) + 1
          /\ SubSeq(queue', 2, Len(queue')) = queue
          /\ queue'[1][2].topic = queue'[1][1]
          /\ queue'[1][2].id = <<queue'[1][1], queue'[1][2].timestamp>>
          /\ queue'[1][2].timestamp \in PayloadStamps \cup {Iso(now)}]_vars

\* C16: a payload that fails to parse changes neither the queue nor the
\* callback, which goes on handling the messages that follow: a step that
\* neither pushes nor pops an entry leaves both as they are.
C16_ParseFailureDiscarded ==
  [][(nEnq' = nEnq /\ deq' = deq) => (queue' = queue /\ mqttAlive' = mqttAlive)]_vars

\* C17: no two hot documents share an identifier, the identifier of each is
\* topic@timestamp, and a document whose identifier is already stored is
\* refused: the hot database is left as it was.
C17_UniqueIds ==
  [][/\ \A d1, d2 \in hot' : d1.id = d2.id => d1 = d2
     /\ \A d \in hot' : d.id = <<d.topic, d.timestamp>>
     /\ (DrainStep /\ \E d \in hot : d.id = Last(queue)[2].id) => hot' = hot]_vars

\* a stored document and, next to be popped, an entry of the same identifier
\* carrying another value
C17_Witness ==
  /\ queue # <<>>
  /\ Len(deq) >= 1
  /\ \E d \in hot : d.id = Last(queue)[2].id /\ d.value # Last(queue)[2].value

\* C18: the record's timestamp is the midpoint of the earliest and the latest
\* timestamp of the window cut to whole seconds, its time_slot is
\* {start: earliest, end: latest} and its identifier is topic@timestamp.
C18_Midpoint ==
  HasRecord =>
    /\ calc_meas.timestamp = Iso(MidInstant)
    /\ 2 * fromisoformat(calc_meas.timestamp)
         <= fromisoformat(EarliestStamp) + fromisoformat(LatestStamp)
    /\ calc_meas.time_slot = [start |-> EarliestStamp, end |-> LatestStamp]
    /\ calc_meas.id = <<calc_meas.topic, calc_meas.timestamp>>
    /\ calc_meas.topic = topics[ti]

\* a window whose earliest and latest instants are an odd number of seconds
\* apart
C18_Witness ==
  /\ HasRecord
  /\ (fromisoformat(LatestStamp) - fromisoformat(EarliestStamp)) % 2 = 1

\* the accuracy resolved for sample i of the series process_series was called
\* with: the one of its device record, or of None when the request failed
SampleAccuracy(i) ==
  LET d == pin.data[i].doc.dev
      rec == IF d \in pin.up /\ d \in DOMAIN DeviceStore THEN DeviceStore[d]
             ELSE None
  IN accuracy(rec, pin.data[1].doc.type, pin.data[i].value)

RECURSIVE SumOver(_, _)
SumOver(f, S) ==
  IF S = {} THEN 0
  ELSE LET i == CHOOSE x \in S : TRUE IN f[i] + SumOver(f, S \ {i})

\* C19: the record's value is (sum of the n sample values) / n and its
\* accuracy is sqrt(sum of accuracy_i squared) / n: with the pairs kept
\* exact, the sums are those two and the divisor is n; n equal accuracies a
\* give sqrt(n * a * a) / n, which is a / sqrt(n).
C19_UncertainMean ==
  (pout # NoOut /\ pout.fn = "process_series" /\ pout.ret.kind = "meas") =>
    LET n == Len(pin.data)
        idx == 1..n
        meas == pout.ret.meas
    IN /\ meas.value =
            [sum |-> SumOver([i \in idx |-> pin.data[i].value], idx), n |-> n]
       /\ meas.accuracy =
            [sumsq |-> SumOver([i \in idx |-> SampleAccuracy(i) * SampleAccuracy(i)], idx),
             n |-> n]
       /\ \A a \in 0..MaxAcc :
            (\A i \in idx : SampleAccuracy(i) = a) => meas.accuracy.sumsq = n * a * a

\* three samples of accuracy 1 each
C19_Witness ==
  /\ pout # NoOut
  /\ pout.fn = "process_series"
  /\ pout.ret.kind = "meas"
  /\ Len(pin.data) = 3
  /\ \A i \in 1..3 : SampleAccuracy(i) = 1
  /\ pout.ret.meas.accuracy = [sumsq |-> 3, n |-> 3]

\* the keys each program requires of the sections it consumes
Required(prog, section) ==
  IF prog = "archiver"
  THEN CASE section = "config" -> ConfigKeys
         [] section = "iot" -> IotKeys
         [] section = "mqtt" -> MqttKeys
         [] section = "couchdb" -> ServerKeys \cup {"dbname"}
  ELSE CASE section = "config" -> ConfigKeys \cup ConsoleKey
         [] section = "iot" -> IotKeys
         [] section = "mqtt" -> {}
         [] section = "couchdb" -> ServerKeys \cup VerifiedDbKeys
Consumed(prog) == IF prog = "archiver" THEN Sections ELSE Sections \ {"mqtt"}

\* the file is missing, or a consumed section or one of its required keys is
BadConfiguration ==
  \/ ~pin.found
  \/ \E section \in Consumed(pin.prog) :
       \/ ~pin.ini[section].present
       \/ ~(Required(pin.prog, section) \subseteq pin.ini[section].keys)

\* C20: started with the configuration file missing or with a required key
\* of a consumed section absent, the program starts nothing: no session with
\* the broker, no insert loop, no request to a database.
C20_StartupRejected ==
  (pout # NoOut /\ pout.fn = "main" /\ BadConfiguration) =>
    /\ ~pout.started.session
    /\ ~pout.started.drain
    /\ ~pout.started.store

\* the lines of the file read that name a topic: the field, blanks cut, is
\* not empty, is not the header word and does not start with #
TopicLines ==
  {i \in 1..Len(pin.file) :
     LET t == strip(pin.file[i].topic)
     IN t # <<>> /\ t # Header /\ t[1] # "#"}
TopicNames == {strip(pin.file[i].topic) : i \in TopicLines}

\* C21: the catalog returned holds exactly the distinct topic names of the
\* lines that are neither comments nor the header, so its size is their
\* number, and each topic carries the rest of the first line that names it.
C21_Catalog ==
  (pout # NoOut /\ pout.fn = "load_iot_config") =>
    /\ DOMAIN pout.topics = TopicNames
    /\ Cardinality(DOMAIN pout.topics) = Cardinality(TopicNames)
    /\ \A t \in TopicNames :
         \E i \in TopicLines :
           /\ strip(pin.file[i].topic) = t
           /\ \A j \in TopicLines : strip(pin.file[j].topic) = t => i <= j
           /\ pout.topics[t] = pin.file[i].rest

\* the hot documents whose view key is at or after the key [topic], and the
\* timestamp of the first of them in key order: the start of the window
\* get_measures_slot selects for the topic
FromTopic(topic) == {d \in hot : KeyLeq(TopicKey(topic), Key(d))}
SelectedStart(topic) ==
  (CHOOSE d \in FromTopic(topic) :
     \A e \in FromTopic(topic) : KeyLeq(Key(d), Key(e))).timestamp

\* C22: a call of archive_series that selects a window whose end is not
\* before the current time changes neither store: nothing is aggregated,
\* nothing is inserted into the datastore, nothing is deleted from the hot
\* database, and, unless a request raised, the call returns False.
C22_NotReadyNoEffect ==
  [][(/\ SelectStep
      /\ FromTopic(topics[ti]) # {}
      /\ WellFormed(SelectedStart(topics[ti]))
      /\ fromisoformat(SelectedStart(topics[ti])) + WindowLen >= now)
       => /\ hot' = hot
          /\ cold' = cold
          /\ deleted' = deleted
          /\ archived' = archived
          /\ calc_meas' = NoMeas
          /\ rows' = <<>>
          /\ epc' # "insert"
          /\ epc' # "crashed" => ReturnedFalse]_vars

\* archive_series returned False for a topic that holds two or more documents
\* in a window not yet over, and both stores are as they were
C22_Witness ==
  /\ ti > 1
  /\ epc \in {"loop", "done"}
  /\ exc = "none"
  /\ cold = {}
  /\ deleted = {}
  /\ Cardinality(TopicDocs(topics[ti - 1])) >= 2
  /\ WellFormed(Earliest(topics[ti - 1]))
  /\ fromisoformat(Earliest(topics[ti - 1])) + WindowLen >= now

\* the ranks of the entries still in the queue and of those popped
Queued == {qser[i] : i \in 1..Len(qser)}
Popped == {deq[i] : i \in 1..Len(deq)}

\* C23: whatever the interleaving of on_message and the insert loop, every
\* entry pushed so far is either in the queue or was popped, never both,
\* never twice and never neither: the entries pushed are those queued plus
\* those popped, counted with multiplicity.
C23_NoLossNoDuplicate ==
  /\ Queued \cup Popped = 1..nEnq
  /\ Queued \cap Popped = {}
  /\ Cardinality(Queued) = Len(qser)
  /\ Cardinality(Popped) = Len(deq)
  /\ Len(queue) + Len(deq) = nEnq

\* every message was pushed; two of the entries were popped and stored, the
\* third is in the queue
C23_Witness ==
  /\ nEnq = MaxMsgs
  /\ Len(deq) = 2
  /\ Len(queue) = 1
  /\ Cardinality(hot) = 2

\* the step is a turn of the insert loop: it popped, fell asleep or woke up
LoopTurn == DrainStep \/ idle' # idle

\* C24: the insert loop does not spin and does not starve the queue.  A turn
\* that finds the queue empty pops nothing and puts the loop to sleep; no
\* entry is popped while the loop sleeps; the sleep ends; and, the loop being
\* scheduled fairly, every entry pushed is eventually popped (its insert
\* being attempted in the same turn).
C24_SleepAndProgress ==
  /\ [][(LoopTurn /\ queue = <<>> /\ ~idle) => (idle' /\ deq' = deq)]_vars
  /\ [][DrainStep => (~idle /\ ~idle')]_vars
  /\ idle ~> ~idle
  /\ \A k \in 1..MaxMsgs : (k \in Queued) ~> (k \in Popped)

\* every message was pushed and popped, and the loop, finding the queue
\* empty, sleeps
C24_Witness ==
  /\ Len(deq) = MaxMsgs
  /\ queue = <<>>
  /\ idle

\* C25: the topics are consolidated independently.  An exception raised while
\* a window of one topic is selected, aggregated or migrated leaves no topic
\* of the list unvisited in that run of the engine, and a turn of the delete
\* loop removes or changes hot documents of the current topic only.
C25_TopicsIndependent ==
  [][/\ (epc # "crashed" /\ epc' = "crashed") => ti' >= Len(topics')
     /\ DeleteStep => \A d \in (hot \ hot') \cup (hot' \ hot) : d.topic = topics[ti]]_vars

\* C26: while the bridge goes on inserting, a migration removes from the hot
\* database only documents that its window query returned and that went into
\* its record; a document of the topic stored after the query, even with a
\* timestamp inside the window, stays.
C26_LateSampleKept ==
  [][HasRecord => /\ (hot \ hot') \subseteq RowDocs
                  /\ (deleted' \ deleted) \subseteq RowDocs
                  /\ \A d \in hot \ RowDocs : d \in hot']_vars

\* in the middle of the delete loop the hot database holds a document of the
\* topic that is not among the rows although its timestamp is in the window
C26_Witness ==
  /\ epc = "delete"
  /\ di > 1
  /\ \E d \in hot :
       /\ d.topic = topics[ti]
       /\ d \notin RowDocs
       /\ WellFormed(d.timestamp)
       /\ win[1] <= fromisoformat(d.timestamp)
       /\ fromisoformat(d.timestamp) <= win[2]

\* the exception that ended the step is one a failed request to a database
\* accounts for: the remove of the delete loop raised, or get_first_doc gave
\* None although the view holds a document at or after the key of the topic
FailedRequest ==
  \/ exc' = "StoreError"
  \/ exc' = "TypeError" /\ FromTopic(topics[ti]) # {}

\* C27: with no failing store operation the loop over the windows of a topic
\* ends normally: the engine stops working on the topic only when
\* archive_series returns False, after which it is at the next topic or at
\* the end of the list, and never because an exception ended main.
C27_LoopTerminates ==
  [][(epc \in {"loop", "insert", "delete"} /\ (epc' \notin {"loop", "insert", "delete"} \/ ti' # ti)
        /\ ~FailedRequest)
       => /\ epc = "loop"
          /\ ReturnedFalse
          /\ exc' = "none"]_vars
====
